---- MODULE Spec2Model ----
(***************************************************************************)
(* A model of scripts/csv_to_json.py: the conversion of a reading-log CSV  *)
(* into a JSON array of paper records.                                     *)
(*                                                                         *)
(* A text (Python str) is a sequence of symbols.  A symbol is a one-       *)
(* character string, except that the wording of a column header is kept   *)
(* as one symbol ("Paper Title"): the program only ever looks at the       *)
(* whitespace around a header, never inside it.                            *)
(* An optional value (None or a value v) is <<>> or <<v>>.                 *)
(***************************************************************************)
EXTENDS Integers, Sequences, FiniteSets, TLC

VARIABLES
    pc,          \* position of the script / of the function under study
    inFile,      \* the input path: [readable, rows]; rows as csv.reader yields them
    fieldnames,  \* reader.fieldnames or []
    normalized,  \* the whitespace-normalized header map (line 89)
    pos,         \* number of csv rows the reader has consumed
    i,           \* enumerate(reader, start=1) counter of the last row yielded
    items,       \* the result list
    outFile,     \* the file at the output path: [kind, data]
    title,       \* make_id: title argument
    yearCell,    \* safe_int: x argument
    year,        \* safe_int result
    pid,         \* make_id(title, year) or f"paper-{i}"
    s,           \* split_hyphen_lines: s argument
    bullets,     \* split_hyphen_lines(s)
    again,       \* split_hyphen_lines of the re-joined bullets
    row,         \* get: the row as csv.reader yields it
    got          \* get(row, HEADERS[f]) for every logical field f

vars == <<pc, inFile, fieldnames, normalized, pos, i, items, outFile,
          title, yearCell, year, pid, s, bullets, again, row, got>>

runVars == <<inFile, fieldnames, normalized, pos, i, items, outFile>>
idVars == <<title, yearCell, year, pid>>
bulletVars == <<s, bullets, again>>
lookupVars == <<row, got>>

-----------------------------------------------------------------------------
(* Bounds of the model *)

MaxLen == 5          \* longest bullet text drawn
MaxTitleLen == 2     \* longest short title drawn (two long titles are added)
MaxYearLen == 3      \* longest year cell drawn
MaxCols == 2         \* most header columns drawn for the lookup
MaxRows == 3         \* most data lines in an input file

-----------------------------------------------------------------------------
(* Python str primitives *)

None == <<>>
Some(v) == <<v>>

LF == "\n"
CR == "\r"
HYPHEN == "-"

\* str.isspace() on the symbols used
Whitespace == {" ", "\t", LF, CR}

IsSpace(c) == c \in Whitespace

RECURSIVE LStrip(_)
LStrip(t) ==
    IF t # <<>> /\ IsSpace(Head(t)) THEN LStrip(Tail(t)) ELSE t

RECURSIVE RStrip(_)
RStrip(t) ==
    IF t # <<>> /\ IsSpace(t[Len(t)]) THEN RStrip(SubSeq(t, 1, Len(t) - 1)) ELSE t

\* str.strip()
Strip(t) == RStrip(LStrip(t))

\* t.startswith(p)
StartsWith(t, p) == Len(t) >= Len(p) /\ SubSeq(t, 1, Len(p)) = p

\* str.replace(old, new), old non-empty, scanning left to right
RECURSIVE Replace(_, _, _)
Replace(t, old, new) ==
    IF t = <<>> THEN <<>>
    ELSE IF StartsWith(t, old)
         THEN new \o Replace(SubSeq(t, Len(old) + 1, Len(t)), old, new)
         ELSE <<Head(t)>> \o Replace(Tail(t), old, new)

\* str.split(sep) for a one-symbol separator: n separators give n+1 pieces
RECURSIVE Split(_, _)
Split(t, sep) ==
    IF \A k \in 1..Len(t) : t[k] # sep THEN <<t>>
    ELSE LET k == CHOOSE k \in 1..Len(t) :
                      t[k] = sep /\ \A j \in 1..(k - 1) : t[j] # sep
         IN  <<SubSeq(t, 1, k - 1)>> \o Split(SubSeq(t, k + 1, Len(t)), sep)

-----------------------------------------------------------------------------
(* split_hyphen_lines *)

\* the number of leading whitespace symbols of t
RECURSIVE LeadingSpaces(_)
LeadingSpaces(t) ==
    IF t # <<>> /\ IsSpace(Head(t)) THEN 1 + LeadingSpaces(Tail(t)) ELSE 0

\* what (.+)$ captures at the start of t when it matches all of t: "." is any
\* symbol but a line feed, "$" also matches before one final line feed
DotPlusEnd(t) ==
    LET body == IF t # <<>> /\ t[Len(t)] = LF THEN SubSeq(t, 1, Len(t) - 1) ELSE t
    IN  IF body # <<>> /\ \A k \in 1..Len(body) : body[k] # LF
        THEN Some(body) ELSE None

\* re.match(r"^\-\s*(.+)$", raw): None, or Some(group 1).  \s* is greedy and
\* gives symbols back one at a time until (.+)$ matches.
HyphenMatch(raw) ==
    IF raw = <<>> \/ Head(raw) # HYPHEN THEN None
    ELSE LET rest == Tail(raw)
             ks == {k \in 0..LeadingSpaces(rest) :
                        DotPlusEnd(SubSeq(rest, k + 1, Len(rest))) # None}
         IN  IF ks = {} THEN None
             ELSE LET k == CHOOSE k \in ks : \A j \in ks : j <= k
                  IN  DotPlusEnd(SubSeq(rest, k + 1, Len(rest)))

\* a loop body whose pattern lacks \s* and whose capture is not stripped
LineBulletsKeepSpace(piece) ==
    LET raw == Strip(piece)
    IN  IF raw = <<>> THEN <<>>
        ELSE IF Head(raw) = HYPHEN /\ Len(raw) > 1 THEN <<Tail(raw)>>
        ELSE <<raw>>

\* a loop body that keeps only the lines that start with a hyphen
LineBulletsHyphenOnly(piece) ==
    LET raw == Strip(piece)
        m == HyphenMatch(raw)
    IN  IF raw = <<>> \/ m = None THEN <<>> ELSE <<Strip(m[1])>>

\* the body of the for loop, lines 47-58: the bullets one piece adds
LineBullets(piece) ==
    LET raw == Strip(piece)
        m == HyphenMatch(raw)
    IN  IF raw = <<>> THEN <<>>
        ELSE IF m # None THEN <<Strip(m[1])>>
        ELSE <<raw>>

RECURSIVE LoopLines(_)
LoopLines(pieces) ==
    IF pieces = <<>> THEN <<>>
    ELSE LineBullets(Head(pieces)) \o LoopLines(Tail(pieces))

NonEmpty(t) == t # <<>>

split_hyphen_lines(t) ==
    IF t = <<>> THEN <<>>
    ELSE LET u == Strip(Replace(Replace(t, <<CR, LF>>, <<LF>>), <<CR>>, <<LF>>))
         IN  IF u = <<>> THEN <<>>
             ELSE SelectSeq(LoopLines(Split(u, LF)), NonEmpty)

-----------------------------------------------------------------------------
(* safe_int, make_id *)

Digits == <<"0", "1", "2", "3", "4", "5", "6", "7", "8", "9">>

IsDigit(c) == \E d \in 1..Len(Digits) : Digits[d] = c

DigitValue(c) == (CHOOSE d \in 1..Len(Digits) : Digits[d] = c) - 1

\* the literals int() accepts in base 10: an optional sign, then digits, single
\* underscores allowed between digits
IsIntLiteral(t) ==
    LET body == IF t # <<>> /\ Head(t) \in {"+", "-"} THEN Tail(t) ELSE t
    IN  /\ body # <<>>
        /\ \A k \in 1..Len(body) : IsDigit(body[k]) \/ body[k] = "_"
        /\ IsDigit(body[1]) /\ IsDigit(body[Len(body)])
        /\ \A k \in 1..(Len(body) - 1) : ~(body[k] = "_" /\ body[k + 1] = "_")

RECURSIVE DigitsValue(_, _)
DigitsValue(body, acc) ==
    IF body = <<>> THEN acc
    ELSE IF Head(body) = "_" THEN DigitsValue(Tail(body), acc)
    ELSE DigitsValue(Tail(body), 10 * acc + DigitValue(Head(body)))

\* int(t) for a literal t
IntOf(t) ==
    IF Head(t) = "-" THEN 0 - DigitsValue(Tail(t), 0)
    ELSE IF Head(t) = "+" THEN DigitsValue(Tail(t), 0)
    ELSE DigitsValue(t, 0)

\* a coercion that accepts digits only (str.isdigit() before int())
safe_int_digits(x) ==
    LET t == Strip(x)
    IN  IF t # <<>> /\ \A k \in 1..Len(t) : IsDigit(t[k]) THEN Some(IntOf(t)) ELSE None

\* try: int(str(x).strip())  except: None
safe_int(x) ==
    LET t == Strip(x)
    IN  IF IsIntLiteral(t) THEN Some(IntOf(t)) ELSE None

\* str(n) of a natural number, and of an integer (the f-string's {year}, {i})
RECURSIVE StrNat(_)
StrNat(n) ==
    IF n < 10 THEN <<Digits[n + 1]>>
    ELSE StrNat(n \div 10) \o <<Digits[(n % 10) + 1]>>

Str(n) == IF n < 0 THEN <<"-">> \o StrNat(0 - n) ELSE StrNat(n)

UpperLetters == <<"A", "B", "C", "D", "E", "F", "G", "H", "I", "J", "K", "L", "M",
                  "N", "O", "P", "Q", "R", "S", "T", "U", "V", "W", "X", "Y", "Z">>
LowerLetters == <<"a", "b", "c", "d", "e", "f", "g", "h", "i", "j", "k", "l", "m",
                  "n", "o", "p", "q", "r", "s", "t", "u", "v", "w", "x", "y", "z">>

\* str.lower()
LowerSymbol(c) ==
    IF \E k \in 1..Len(UpperLetters) : UpperLetters[k] = c
    THEN LowerLetters[CHOOSE k \in 1..Len(UpperLetters) : UpperLetters[k] = c]
    ELSE c

Lower(t) == [k \in 1..Len(t) |-> LowerSymbol(t[k])]

\* the class [a-z0-9]
IsSlugSymbol(c) == IsDigit(c) \/ \E k \in 1..Len(LowerLetters) : LowerLetters[k] = c

\* re.sub(r"[^a-z0-9]+", "-", t): every maximal run outside the class becomes
\* one hyphen: the first symbol of a run is replaced, the rest of it dropped
Kept(c) == c # ""

SubRuns(t) ==
    LET out == [k \in 1..Len(t) |->
                   IF IsSlugSymbol(t[k]) THEN t[k]
                   ELSE IF k = 1 \/ IsSlugSymbol(t[k - 1]) THEN HYPHEN
                   ELSE ""]
    IN  SelectSeq(out, Kept)

\* str.strip("-")
RECURSIVE StripHyphens(_)
StripHyphens(t) ==
    IF t # <<>> /\ Head(t) = HYPHEN THEN StripHyphens(Tail(t))
    ELSE IF t # <<>> /\ t[Len(t)] = HYPHEN THEN StripHyphens(SubSeq(t, 1, Len(t) - 1))
    ELSE t

\* the slice t[:n]
Take(t, n) == SubSeq(t, 1, IF Len(t) < n THEN Len(t) ELSE n)

SlugMax == 80

\* lines 69-70: base
Base(ttl) == StripHyphens(SubRuns(Lower(Strip(ttl))))

\* "if year:" is false for None and for 0
Truthy(y) == y # None /\ y[1] # 0

make_id(ttl, y) ==
    LET base == Base(ttl)
    IN  IF Truthy(y) THEN Some(Take(base, SlugMax) \o <<HYPHEN>> \o Str(y[1]))
        ELSE IF Take(base, SlugMax) # <<>> THEN Some(Take(base, SlugMax))
        ELSE None

\* an id that is always the positional one
PaperIdPositional(ttl, y, idx) == <<"p", "a", "p", "e", "r", HYPHEN>> \o Str(idx)

\* the fallback numbered from 0 (enumerate without start=1)
PaperIdZeroBased(ttl, y, idx) ==
    LET made == make_id(ttl, y)
    IN  IF made # None /\ made[1] # <<>> THEN made[1]
        ELSE <<"p", "a", "p", "e", "r", HYPHEN>> \o Str(idx - 1)

\* line 107: make_id(title, year) or f"paper-{i}"
PaperId(ttl, y, idx) ==
    LET made == make_id(ttl, y)
    IN  IF made # None /\ made[1] # <<>> THEN made[1]
        ELSE <<"p", "a", "p", "e", "r", HYPHEN>> \o Str(idx)

-----------------------------------------------------------------------------
(* norm_tags, parse_likert *)

RECURSIVE StripEach(_)
StripEach(pieces) ==
    IF pieces = <<>> THEN <<>>
    ELSE <<Strip(Head(pieces))>> \o StripEach(Tail(pieces))

norm_tags(t) ==
    IF t = <<>> THEN <<>>
    ELSE SelectSeq(StripEach(Split(t, ",")), NonEmpty)

parse_likert(x) == Strip(x)

-----------------------------------------------------------------------------
(* The header table, csv.DictReader and the lookup *)

HEADERS ==
    [title |-> <<"Paper Title">>,
     year |-> <<"Year Published">>,
     date_started |-> <<"Date of starting reading">>,
     status |-> <<"Current Reading Status">>,
     tags |-> <<"Tags/Keys (separate by comma)">>,
     clarity |-> <<"Rate the Clarity and Quality of the Paper">>,
     relevance |-> <<"How relevant is this paper to your current research/work?">>,
     main_finding |-> <<"Summarize the main finding or conclusion (each start with a hyphen)">>,
     interesting |-> <<"Interesting points (each start with a hyphen)">>]

\* a dict is a function; d.get(k, default)
DictGet(d, k, default) == IF k \in DOMAIN d THEN d[k] ELSE default

\* d[k] = v
DictSet(d, k, v) == [x \in (DOMAIN d) \cup {k} |-> IF x = k THEN v ELSE d[x]]

EmptyDict == <<>>

\* line 89: { (h or "").strip(): h for h in fieldnames }, a later header
\* replacing an earlier one with the same stripped text
RECURSIVE BuildNormalized(_, _)
BuildNormalized(fns, acc) ==
    IF fns = <<>> THEN acc
    ELSE BuildNormalized(Tail(fns), DictSet(acc, Strip(Head(fns)), Head(fns)))

\* the values of a DictReader row: a cell, the restval None, or the list of
\* the cells beyond the last header (under the restkey None)
StrValue(t) == [kind |-> "str", v |-> t]
NoneValue == [kind |-> "None", v |-> <<>>]
ListValue(cells) == [kind |-> "list", v |-> cells]

\* dict(zip(fieldnames, row)): keys are Some(header); the restkey is None
RECURSIVE ZipDict(_, _, _)
ZipDict(fns, cells, acc) ==
    IF fns = <<>> \/ cells = <<>> THEN acc
    ELSE ZipDict(Tail(fns), Tail(cells),
                 DictSet(acc, Some(Head(fns)), StrValue(Head(cells))))

RECURSIVE FillRestval(_, _)
FillRestval(keys, acc) ==
    IF keys = <<>> THEN acc
    ELSE FillRestval(Tail(keys), DictSet(acc, Some(Head(keys)), NoneValue))

\* csv.DictReader.__next__ for a non-empty row
DictRow(fns, cells) ==
    LET d == ZipDict(fns, cells, EmptyDict)
        lf == Len(fns)
        lr == Len(cells)
    IN  IF lf < lr THEN DictSet(d, None, ListValue(SubSeq(cells, lf + 1, lr)))
        ELSE IF lf > lr THEN FillRestval(SubSeq(fns, lr + 1, lf), d)
        ELSE d

\* lines 92-93: row.get(real)
RowValue(d, norm, wanted) ==
    LET key == Strip(wanted)
        real == DictGet(norm, key, wanted)
    IN  DictGet(d, Some(real), NoneValue)

\* "x or ''" is x for a non-empty str or list
Falsy(val) == val.kind = "None" \/ val.v = <<>>

\* line 94 raises AttributeError when (row.get(real) or "") is a list
GetRaises(d, norm, wanted) ==
    LET val == RowValue(d, norm, wanted)
    IN  ~Falsy(val) /\ val.kind = "list"

\* a lookup by the exact header text, as pick() of line 66 does: no
\* whitespace-normalized map
get_exact(d, norm, wanted) ==
    LET val == DictGet(d, Some(wanted), NoneValue)
    IN  IF Falsy(val) THEN <<>> ELSE Strip(val.v)

get(d, norm, wanted) ==
    LET val == RowValue(d, norm, wanted)
    IN  IF Falsy(val) THEN <<>> ELSE Strip(val.v)

Fields == DOMAIN HEADERS

\* lines 97-120: the record one row gives
MakeRecord(d, norm, idx) ==
    LET ttl == get(d, norm, HEADERS.title)
        y == safe_int(get(d, norm, HEADERS.year))
    IN  [id |-> PaperId(ttl, y, idx),
         title |-> ttl,
         year_published |-> y,
         date_started |-> get(d, norm, HEADERS.date_started),
         status |-> get(d, norm, HEADERS.status),
         tags |-> norm_tags(get(d, norm, HEADERS.tags)),
         clarity_quality |-> parse_likert(get(d, norm, HEADERS.clarity)),
         relevance |-> parse_likert(get(d, norm, HEADERS.relevance)),
         main_finding |-> split_hyphen_lines(get(d, norm, HEADERS.main_finding)),
         interesting_points |-> split_hyphen_lines(get(d, norm, HEADERS.interesting))]

RowRaises(d, norm) == \E f \in Fields : GetRaises(d, norm, HEADERS[f])

-----------------------------------------------------------------------------
(* Specification SpecBullets: split_hyphen_lines applied to a drawn text,   *)
(* and applied again to its own output written back one bullet per line     *)

Texts(alphabet, n) == UNION {[1..k -> alphabet] : k \in 0..n}

BulletAlphabet == {HYPHEN, " ", "a", "b", LF, CR}

Idle == "n/a"

RunIdle ==
    /\ inFile = Idle /\ fieldnames = <<>> /\ normalized = <<>> /\ pos = 0
    /\ i = 0 /\ items = <<>> /\ outFile = Idle
IdIdle == title = <<>> /\ yearCell = <<>> /\ year = None /\ pid = <<>>
BulletIdle == s = <<>> /\ bullets = <<>> /\ again = <<>>
LookupIdle == row = <<>> /\ got = <<>>

\* the caller's side of the idempotence law: one bullet per line, each
\* prefixed with "- "
RECURSIVE JoinBullets(_)
JoinBullets(bs) ==
    IF bs = <<>> THEN <<>>
    ELSE IF Len(bs) = 1 THEN <<HYPHEN, " ">> \o bs[1]
    ELSE <<HYPHEN, " ">> \o bs[1] \o <<LF>> \o JoinBullets(Tail(bs))

BulletsInit ==
    /\ pc = "split"
    /\ s \in Texts(BulletAlphabet, MaxLen)
    /\ bullets = <<>> /\ again = <<>>
    /\ RunIdle /\ IdIdle /\ LookupIdle

ApplySplit ==
    /\ pc = "split"
    /\ bullets' = split_hyphen_lines(s)
    /\ pc' = "rejoin"
    /\ UNCHANGED <<s, again, runVars, idVars, lookupVars>>

ApplySplitAgain ==
    /\ pc = "rejoin"
    /\ again' = split_hyphen_lines(JoinBullets(bullets))
    /\ pc' = "rejoined"
    /\ UNCHANGED <<s, bullets, runVars, idVars, lookupVars>>

BulletsNext == ApplySplit \/ ApplySplitAgain

SpecBullets == BulletsInit /\ [][BulletsNext]_vars

-----------------------------------------------------------------------------
(* C8  Bullet-list normalization is idempotent on its own output: writing   *)
(* the bullets of L = split_hyphen_lines(s) one per line, each prefixed     *)
(* with "- ", and normalizing that text again yields exactly L.             *)
C8_Idempotent == pc = "rejoined" => again = bullets

\* two bullets, the first of which itself begins with a hyphen
C8_Witness ==
    /\ pc = "rejoined"
    /\ Len(bullets) = 2
    /\ Head(bullets[1]) = HYPHEN
    /\ again = bullets

-----------------------------------------------------------------------------
(* C10  split_hyphen_lines returns, in line order and without               *)
(* deduplication, one bullet per line that is non-empty after trimming: the *)
(* trimmed content after the hyphen marker for a line "hyphen, optional     *)
(* whitespace, content", the whole trimmed line otherwise; empty lines give *)
(* no bullet, an empty or whitespace-only text gives the empty list, and no *)
(* bullet is the empty string.                                              *)

\* the lines of a text under the three line-ending conventions
RECURSIVE C10_Lines(_, _)
C10_Lines(t, cur) ==
    IF t = <<>> THEN <<cur>>
    ELSE IF Head(t) = CR /\ Len(t) >= 2 /\ t[2] = LF
         THEN <<cur>> \o C10_Lines(Tail(Tail(t)), <<>>)
    ELSE IF Head(t) \in {CR, LF} THEN <<cur>> \o C10_Lines(Tail(t), <<>>)
    ELSE C10_Lines(Tail(t), Append(cur, Head(t)))

C10_Bullet(line) ==
    LET t == Strip(line)
    IN  IF Head(t) = HYPHEN /\ Strip(Tail(t)) # <<>> THEN Strip(Tail(t)) ELSE t

C10_NonBlank(line) == Strip(line) # <<>>

C10_Expected(t) ==
    LET ls == SelectSeq(C10_Lines(t, <<>>), C10_NonBlank)
    IN  [k \in 1..Len(ls) |-> C10_Bullet(ls[k])]

-----------------------------------------------------------------------------
(* Specification SpecId: safe_int applied to a drawn year cell, then        *)
(* make_id with its fallback applied to a drawn title and that year         *)

TitleAlphabet == {"A", "b", "!", " "}
YearAlphabet == {"-", "+", "_", "0", "2", " ", "x"}

\* a title whose slug is longer than the cut, and one whose slug is cut right
\* after a hyphen
LongTitle == [k \in 1..(SlugMax + 1) |-> "a"]
LongTitleCut == [k \in 1..(SlugMax - 1) |-> "a"] \o <<"!", "b">>

Titles == Texts(TitleAlphabet, MaxTitleLen) \cup {LongTitle, LongTitleCut}
YearCells == Texts(YearAlphabet, MaxYearLen)

IdInit ==
    /\ pc = "safe_int"
    /\ title \in Titles
    /\ yearCell \in YearCells
    /\ year = None /\ pid = <<>>
    /\ RunIdle /\ BulletIdle /\ LookupIdle

ApplySafeInt ==
    /\ pc = "safe_int"
    /\ year' = safe_int(yearCell)
    /\ pc' = "make_id"
    /\ UNCHANGED <<title, yearCell, pid, runVars, bulletVars, lookupVars>>

ApplyMakeId ==
    /\ pc = "make_id"
    /\ \E idx \in 1..MaxRows : pid' = PaperId(title, year, idx)
    /\ pc' = "made"
    /\ UNCHANGED <<title, yearCell, year, runVars, bulletVars, lookupVars>>

IdNext == ApplySafeInt \/ ApplyMakeId

SpecId == IdInit /\ [][IdNext]_vars

-----------------------------------------------------------------------------
(* C2  make_id appends the year for every non-null year: for every title    *)
(* and every integer year safe_int produced (0 and negative values          *)
(* included) the id is the slug of the title, truncated to 80 characters,   *)
(* followed by a hyphen and the decimal year.                               *)
C2_YearAlwaysAppended ==
    (pc = "made" /\ year # None) =>
        pid = Take(Base(title), SlugMax) \o <<HYPHEN>> \o Str(year[1])

\* the same statement for the years the code does append
C2_NonZeroYearAppended ==
    (pc = "made" /\ year # None /\ year[1] # 0) =>
        pid = Take(Base(title), SlugMax) \o <<HYPHEN>> \o Str(year[1])

-----------------------------------------------------------------------------
(* C7  For every year cell that is empty or non-numeric, year_published is  *)
(* null and the id carries no trailing year segment (it is the title slug   *)
(* alone, or the positional fallback when the slug is empty); for every     *)
(* cell that parses as an integer after trimming, year_published equals     *)
(* that integer exactly, negative numbers included.                         *)

\* a cell that reads as a decimal integer: sign, digits, digit separators
C7_Numeric(cell) ==
    /\ cell # <<>>
    /\ \E k \in 1..Len(cell) : IsDigit(cell[k])
    /\ \A k \in 1..Len(cell) :
          \/ IsDigit(cell[k])
          \/ cell[k] \in {"+", "-"} /\ k = 1 /\ Len(cell) > 1 /\ IsDigit(cell[2])
          \/ cell[k] = "_" /\ 1 < k /\ k < Len(cell)
                           /\ IsDigit(cell[k - 1]) /\ IsDigit(cell[k + 1])

\* the integer a numeric cell denotes, read from its last digit
RECURSIVE C7_Magnitude(_)
C7_Magnitude(cell) ==
    IF cell = <<>> THEN 0
    ELSE LET last == cell[Len(cell)]
             front == SubSeq(cell, 1, Len(cell) - 1)
         IN  IF IsDigit(last) THEN DigitValue(last) + 10 * C7_Magnitude(front)
             ELSE C7_Magnitude(front)

C7_Value(cell) ==
    IF Head(cell) = "-" THEN 0 - C7_Magnitude(cell) ELSE C7_Magnitude(cell)

C7_Fallbacks == {<<"p", "a", "p", "e", "r", HYPHEN>> \o Str(idx) : idx \in 1..MaxRows}

C7_YearCoercion ==
    pc = "made" =>
        LET cell == Strip(yearCell)
            slug == Take(Base(title), SlugMax)
        IN  IF C7_Numeric(cell)
            THEN year = Some(C7_Value(cell))
            ELSE /\ year = None
                 /\ IF slug # <<>> THEN pid = slug ELSE pid \in C7_Fallbacks

\* a non-numeric cell beside a title that has a slug
C7_Witness ==
    /\ pc = "made"
    /\ yearCell = <<" ", "x">>
    /\ title = <<"A", "b">>
    /\ year = None
    /\ pid = <<"a", "b">>

-----------------------------------------------------------------------------
(* Specification SpecLookup: the header map built from drawn field names    *)
(* and every logical field looked up in a drawn row                         *)

HeaderCells ==
    {<<"Paper Title">>, <<" ", "Paper Title">>, <<"Paper Title", " ">>,
     <<"Year Published">>, <<"Notes">>, <<>>}

LookupCells == {<<>>, <<" ", "x", " ">>, <<"y">>}

SeqsUpTo(S, lo, hi) == UNION {[1..k -> S] : k \in lo..hi}

LookupInit ==
    /\ pc = "normalized"
    /\ inFile = Idle /\ outFile = Idle /\ pos = 0 /\ i = 0 /\ items = <<>>
    /\ fieldnames \in SeqsUpTo(HeaderCells, 0, MaxCols)
    /\ normalized = EmptyDict
    /\ row \in SeqsUpTo(LookupCells, 1, MaxCols + 1)
    /\ got = <<>>
    /\ IdIdle /\ BulletIdle

BuildHeaderMap ==
    /\ pc = "normalized"
    /\ normalized' = BuildNormalized(fieldnames, EmptyDict)
    /\ pc' = "get"
    /\ UNCHANGED <<inFile, fieldnames, pos, i, items, outFile, row, got,
                   idVars, bulletVars>>

LookupFields ==
    /\ pc = "get"
    /\ LET d == DictRow(fieldnames, row)
       IN  got' = [raised |-> RowRaises(d, normalized),
                   value |-> [f \in Fields |-> get(d, normalized, HEADERS[f])]]
    /\ pc' = "got"
    /\ UNCHANGED <<runVars, row, idVars, bulletVars>>

LookupNext == BuildHeaderMap \/ LookupFields

SpecLookup == LookupInit /\ [][LookupNext]_vars

-----------------------------------------------------------------------------
(* C6  Header lookup is whitespace-tolerant and never aborts: for each of   *)
(* the nine logical fields, a column whose header equals the expected text  *)
(* after stripping whitespace is used (the last such column) and its cell   *)
(* returned trimmed; when no such column exists, or the row has no cell for *)
(* it, the field is the empty string.                                       *)
C6_Columns(f) == {c \in 1..Len(fieldnames) : Strip(fieldnames[c]) = HEADERS[f]}

C6_Expected(f) ==
    IF C6_Columns(f) = {} THEN <<>>
    ELSE LET c == CHOOSE c \in C6_Columns(f) : \A e \in C6_Columns(f) : e <= c
         IN  IF c <= Len(row) THEN Strip(row[c]) ELSE <<>>

C6_TolerantLookup ==
    pc = "got" =>
        /\ ~got.raised
        /\ Cardinality(Fields) = 9
        /\ \A f \in Fields : got.value[f] = C6_Expected(f)

\* a header with surrounding whitespace is found and its cell trimmed, a row
\* longer than the header does not abort, and a missing column reads empty
C6_Witness ==
    /\ pc = "got"
    /\ fieldnames = << <<" ", "Paper Title">> >>
    /\ row = << <<" ", "x", " ">>, <<"y">> >>
    /\ got.value.title = <<"x">>
    /\ got.value.year = <<>>

-----------------------------------------------------------------------------
(* Specification Spec: one run of the script on a drawn input file          *)

\* what csv.reader does at one line of the file: a list of cells (empty for
\* a blank line), or csv.Error / a decoding error
Line(cells) == [error |-> FALSE, cells |-> cells]
BadLine == [error |-> TRUE, cells |-> <<>>]

HeaderLines ==
    {Line(<<HEADERS.title, HEADERS.year, HEADERS.tags, HEADERS.main_finding>>),
     Line(<<HEADERS.year \o <<" ">>, <<" ">> \o HEADERS.title>>),
     Line(<<HEADERS.title>>),
     Line(<<>>),
     BadLine}

DataLines ==
    {Line(<<>>),
     Line(<<<<"D", "L">>, <<"2", "0", "2", "0">>,
            <<"m", "l", ",", " ", "n", " ", ",", " ">>,
            <<HYPHEN, " ", "a", LF, HYPHEN, " ", "b">>>>),
     Line(<<<<>>, <<>>>>),
     Line(<<<<"x">>, <<"!">>>>),
     Line(<<<<"0">>, <<"!", "!">>>>),
     Line(<<<<"!">>>>),
     Line(<<<<"X">>, <<"0">>>>),
     BadLine}

InputFiles ==
    {[readable |-> FALSE, rows |-> <<>>], [readable |-> TRUE, rows |-> <<>>]}
    \cup {[readable |-> TRUE, rows |-> <<h>> \o ds] :
              h \in HeaderLines, ds \in SeqsUpTo(DataLines, 0, MaxRows)}

OldFile == [kind |-> "old", data |-> <<>>]
TruncatedFile == [kind |-> "truncated", data |-> <<>>]
PartialFile == [kind |-> "partial", data |-> <<>>]
\* json.dump(items, f, ensure_ascii=False, indent=2): the array in the file
JsonFile(array) == [kind |-> "json", data |-> array]

Init ==
    /\ pc = "open_in"
    /\ inFile \in InputFiles
    /\ fieldnames = <<>> /\ normalized = EmptyDict
    /\ pos = 0 /\ i = 0 /\ items = <<>>
    /\ outFile = OldFile
    /\ IdIdle /\ BulletIdle /\ LookupIdle

\* the index of the first non-blank line after line p, or 0 when there is
\* none: DictReader.__next__ skips the rows that are []
NextLine(rows, p) ==
    LET later == {k \in (p + 1)..Len(rows) : rows[k].error \/ rows[k].cells # <<>>}
    IN  IF later = {} THEN 0 ELSE CHOOSE k \in later : \A j \in later : k <= j

\* an append that skips a record already in the list
ListAppendUnique(list, rec) ==
    IF \E k \in 1..Len(list) : list[k] = rec THEN list ELSE Append(list, rec)

\* items.insert(0, rec)
ListPrepend(list, rec) == <<rec>> \o list

\* items.append(rec)
ListAppend(list, rec) == Append(list, rec)

\* line 84: open(inp)
OpenInput ==
    /\ pc = "open_in"
    /\ inFile.readable
    /\ pc' = "fieldnames"
    /\ UNCHANGED <<runVars, idVars, bulletVars, lookupVars>>

OpenInputFails ==
    /\ pc = "open_in"
    /\ ~inFile.readable
    /\ pc' = "failed_in"
    /\ UNCHANGED <<runVars, idVars, bulletVars, lookupVars>>

\* lines 85-89: the first line of the file is the header, blank or not
ReadFieldnames ==
    /\ pc = "fieldnames"
    /\ IF inFile.rows = <<>> THEN TRUE ELSE ~inFile.rows[1].error
    /\ fieldnames' = IF inFile.rows = <<>> THEN <<>> ELSE inFile.rows[1].cells
    /\ normalized' = BuildNormalized(fieldnames', EmptyDict)
    /\ pos' = IF inFile.rows = <<>> THEN 0 ELSE 1
    /\ pc' = "rows"
    /\ UNCHANGED <<inFile, i, items, outFile, idVars, bulletVars, lookupVars>>

ReadFieldnamesFails ==
    /\ pc = "fieldnames"
    /\ IF inFile.rows = <<>> THEN FALSE ELSE inFile.rows[1].error
    /\ pos' = 1
    /\ pc' = "failed_in"
    /\ UNCHANGED <<inFile, fieldnames, normalized, i, items, outFile,
                   idVars, bulletVars, lookupVars>>

\* lines 96-120: one iteration of the loop
LoopBody ==
    /\ pc = "rows"
    /\ NextLine(inFile.rows, pos) # 0
    /\ LET k == NextLine(inFile.rows, pos)
           d == DictRow(fieldnames, inFile.rows[k].cells)
       IN  /\ ~inFile.rows[k].error
           /\ pos' = k
           /\ i' = i + 1
           /\ IF RowRaises(d, normalized)
              THEN pc' = "failed_in" /\ items' = items
              ELSE pc' = "rows"
                   /\ items' = ListAppend(items, MakeRecord(d, normalized, i + 1))
    /\ UNCHANGED <<inFile, fieldnames, normalized, outFile,
                   idVars, bulletVars, lookupVars>>

\* the reader raises while fetching the next row
LoopFails ==
    /\ pc = "rows"
    /\ NextLine(inFile.rows, pos) # 0
    /\ inFile.rows[NextLine(inFile.rows, pos)].error
    /\ pos' = NextLine(inFile.rows, pos)
    /\ pc' = "failed_in"
    /\ UNCHANGED <<inFile, fieldnames, normalized, i, items, outFile,
                   idVars, bulletVars, lookupVars>>

\* the reader is exhausted: the with block ends
LoopEnds ==
    /\ pc = "rows"
    /\ NextLine(inFile.rows, pos) = 0
    /\ pos' = Len(inFile.rows)
    /\ pc' = "open_out"
    /\ UNCHANGED <<inFile, fieldnames, normalized, i, items, outFile,
                   idVars, bulletVars, lookupVars>>

\* the output opened for writing while the rows are still being read
OpenOutputBeforeLoop ==
    /\ pc = "rows"
    /\ outFile = OldFile
    /\ outFile' = TruncatedFile
    /\ UNCHANGED <<pc, inFile, fieldnames, normalized, pos, i, items,
                   idVars, bulletVars, lookupVars>>

\* line 125: open(outp, "w") truncates the file
OpenOutput ==
    /\ pc = "open_out"
    /\ outFile' = TruncatedFile
    /\ pc' = "dump"
    /\ UNCHANGED <<inFile, fieldnames, normalized, pos, i, items,
                   idVars, bulletVars, lookupVars>>

\* the output path cannot be opened for writing
OpenOutputFails ==
    /\ pc = "open_out"
    /\ pc' = "failed_out"
    /\ UNCHANGED <<runVars, idVars, bulletVars, lookupVars>>

\* line 126
Dump ==
    /\ pc = "dump"
    /\ outFile' = JsonFile(items)
    /\ pc' = "done"
    /\ UNCHANGED <<inFile, fieldnames, normalized, pos, i, items,
                   idVars, bulletVars, lookupVars>>

\* a write error part-way through json.dump
DumpFails ==
    /\ pc = "dump"
    /\ outFile' = PartialFile
    /\ pc' = "failed_out"
    /\ UNCHANGED <<inFile, fieldnames, normalized, pos, i, items,
                   idVars, bulletVars, lookupVars>>

Next ==
    \/ OpenInput \/ OpenInputFails
    \/ ReadFieldnames \/ ReadFieldnamesFails
    \/ LoopBody \/ LoopFails \/ LoopEnds
    \/ OpenOutput \/ OpenOutputFails
    \/ Dump \/ DumpFails

Spec == Init /\ [][Next]_vars

-----------------------------------------------------------------------------
(* The input as the claims speak of it *)

\* the file lines after the header line
DataLineNumbers == 2..Len(inFile.rows)

IsBlank(k) == ~inFile.rows[k].error /\ inFile.rows[k].cells = <<>>

\* the data rows the reader has yielded so far, as file line numbers
YieldedLines == {k \in DataLineNumbers : k <= pos /\ ~inFile.rows[k].error /\ ~IsBlank(k)}

\* the position of line k among the non-blank data rows
Rank(k) == Cardinality({j \in DataLineNumbers : j <= k /\ ~IsBlank(j)})

\* the line of the r-th non-blank data row
LineOfRank(r) == CHOOSE k \in DataLineNumbers : ~IsBlank(k) /\ Rank(k) = r

Fallback(idx) == <<"p", "a", "p", "e", "r", HYPHEN>> \o Str(idx)

-----------------------------------------------------------------------------
(* C1  For every input read without a fatal error, the length of the        *)
(* output array equals the number of data rows, counting every line after   *)
(* the header row.                                                          *)
C1_EveryLineCounted ==
    pc = "done" => Len(outFile.data) = Cardinality(DataLineNumbers)

(* C1 as amended: the length of the output array equals the number of       *)
(* non-blank lines after the header row; a row whose fields are all empty   *)
(* is counted, a line with no field at all is skipped.                      *)
C1_NonBlankLinesCounted ==
    pc = "done" =>
        Len(outFile.data) = Cardinality({k \in DataLineNumbers : ~IsBlank(k)})

\* a blank line, then a row whose two fields are empty, then another row
C1_Witness ==
    /\ pc = "done"
    /\ Len(inFile.rows) = 4
    /\ IsBlank(2)
    /\ inFile.rows[3].cells = <<<<>>, <<>>>>
    /\ Len(outFile.data) = 2

-----------------------------------------------------------------------------
(* C3  The id of a record depends only on its own title and year: any two   *)
(* rows of one input with the same title cell and the same year cell get    *)
(* the same id, at any two row positions.                                   *)
C3_SameCells(j, k) ==
    LET dj == DictRow(fieldnames, inFile.rows[LineOfRank(j)].cells)
        dk == DictRow(fieldnames, inFile.rows[LineOfRank(k)].cells)
    IN  /\ RowValue(dj, normalized, HEADERS.title) = RowValue(dk, normalized, HEADERS.title)
        /\ RowValue(dj, normalized, HEADERS.year) = RowValue(dk, normalized, HEADERS.year)

C3_SameCellsSameId ==
    \A j, k \in 1..Len(items) : C3_SameCells(j, k) => items[j].id = items[k].id

(* C3 as amended: two rows with the same title cell and the same year cell  *)
(* get the same id whenever the title has a non-empty slug or the year is a *)
(* non-zero integer; otherwise each gets the fallback of its own position.  *)
C3_Synthesized(rec) ==
    Base(rec.title) # <<>> \/ (rec.year_published # None /\ rec.year_published[1] # 0)

C3_SameIdUnlessFallback ==
    \A j, k \in 1..Len(items) :
        C3_SameCells(j, k) =>
            IF C3_Synthesized(items[j])
            THEN items[j].id = items[k].id
            ELSE items[j].id = Fallback(j) /\ items[k].id = Fallback(k)

\* two rows with the same title and year at the first and third positions
C3_Witness ==
    /\ pc = "done"
    /\ Len(items) = 3
    /\ C3_SameCells(1, 3)
    /\ items[1].title = <<"D", "L">>
    /\ items[1].id = <<"d", "l", HYPHEN, "2", "0", "2", "0">>
    /\ items[3].id = items[1].id

-----------------------------------------------------------------------------
-----------------------------------------------------------------------------
(* C5  The output path is opened for writing, and so truncated, only after  *)
(* every input row has been read and converted; a failure while opening or  *)
(* parsing the input leaves the existing file at the output path unchanged. *)
C5_WriteAfterRead ==
    /\ outFile # OldFile =>
          /\ pc \in {"dump", "done", "failed_out"}
          /\ pos = Len(inFile.rows)
          /\ \A k \in 1..Len(inFile.rows) : ~inFile.rows[k].error
          /\ Len(items) = Cardinality({k \in DataLineNumbers : ~IsBlank(k)})
    /\ pc = "failed_in" => outFile = OldFile

\* the input fails to parse after two rows were converted
C5_Witness ==
    /\ pc = "failed_in"
    /\ Len(items) = 2
    /\ outFile = OldFile

-----------------------------------------------------------------------------
(* C9  The output array preserves source row order, without reordering or   *)
(* deduplication: after any number of rows the result list is exactly the   *)
(* sequence of the records built from the rows consumed so far, in input    *)
(* order, and the written array is that list for the whole input.           *)
C9_RecordOf(r) ==
    MakeRecord(DictRow(fieldnames, inFile.rows[LineOfRank(r)].cells), normalized, r)

C9_OrderPreserved ==
    /\ Len(items) = Cardinality(YieldedLines)
    /\ \A r \in 1..Len(items) : items[r] = C9_RecordOf(r)
    /\ pc = "done" =>
          /\ outFile.kind = "json"
          /\ outFile.data = items
          /\ YieldedLines = {k \in DataLineNumbers : ~IsBlank(k)}

\* the same row twice with a different row between them
C9_Witness ==
    /\ pc = "done"
    /\ Len(outFile.data) = 3
    /\ outFile.data[1] = outFile.data[3]
    /\ outFile.data[2] # outFile.data[1]
    /\ outFile.data[1].title = <<"X">>
    /\ outFile.data[2].title = <<"D", "L">>
    /\ outFile.data[2].tags = << <<"m", "l">>, <<"n">> >>
    /\ outFile.data[2].main_finding = << <<"a">>, <<"b">> >>

====
